---- MODULE Spec2Model ----
(***************************************************************************)
(* Sovereign Map federated learning: the stake ledger of a node, the round *)
(* of FederatedCoordinator (sovereignmap_poc.py), the fl_round handler of  *)
(* the production backend (sovereignmap_production_backend.py), the update *)
(* signature, the Multi-Krum strategy (src/aggregator.py), the two         *)
(* aggregation functions on their own, and the backend's fl_round as two   *)
(* threads run it.                                                         *)
(*                                                                         *)
(* Numbers.  Stakes, rewards and weights are Python floats in the source;  *)
(* the model uses integers, and draws the inputs of the rounds from values *)
(* on which the float operations of the source (+, max, median of a pair)  *)
(* are exact; the aggregation driver says where it keeps an integer part.  *)
(***************************************************************************)
EXTENDS Integers, Sequences, FiniteSets, TLC

VARIABLES
    program,            \* which driver runs: "ledger" | "poc" | "backend" | "sig" | "krum" | ...
    nodes,              \* the node list: Seq of SovereignMapNode objects
    initial_stake,      \* the initial_stake argument each node was constructed with
    update_stake_calls, \* per node, the number of update_stake calls made on it
    round_number,       \* FederatedCoordinator.round_number / global fl_round_number
    metrics_history,    \* FederatedCoordinator.metrics_history
    rnd,                \* the locals of the operation that ran last (its round state)
    upd,                \* signature driver: the ModelUpdate under test
    krum,               \* Multi-Krum driver: the strategy's inputs, result and counters
    agg,                \* aggregation driver: the updates handed to the aggregators, the results
    threads             \* backend threads driver: per thread, its position in fl_round and its locals

vars == <<program, nodes, initial_stake, update_stake_calls, round_number,
          metrics_history, rnd, upd, krum, agg, threads>>

(***************************************************************************)
(* Bounds of the model.                                                    *)
(***************************************************************************)
MaxNodes == 3
MaxRounds == 2
MaxCalls == 3
MaxSigNode == 12
MaxSigRound == 23
MaxClients == 5
MaxByzantine == 2
MaxServerRounds == 2
MaxUpdates == 4
MaxThreadNodes == 2

\* Optional[np.ndarray]: None is the vector with no coordinates (a weight vector
\* always has at least one).
None == <<>>
Idle == [op |-> "none"]

max(a, b) == IF a >= b THEN a ELSE b
min(a, b) == IF a <= b THEN a ELSE b

RECURSIVE SumSeq(_)
SumSeq(s) == IF s = <<>> THEN 0 ELSE Head(s) + SumSeq(Tail(s))

(***************************************************************************)
(* SovereignMapNode: __init__ and update_stake are the same code in the    *)
(* POC and in the production backend.                                      *)
(***************************************************************************)
NewNode(node_id, stake0, online, readings, w) ==
    [ id                |-> node_id,
      stake             |-> stake0,
      contribution_score |-> 1,
      is_online         |-> online,
      stake_history     |-> <<stake0>>,
      last_update_round |-> 0,
      data_buffer       |-> readings, \* len(self.data_buffer)
      model             |-> w ]      \* the model's weight vector

update_stake_unclamped(self, reward) ==
    LET s1 == [self EXCEPT !.stake = @ + reward]
    IN  [s1 EXCEPT !.stake_history = Append(@, s1.stake)]

update_stake_clamps_reward(self, reward) ==
    LET s1 == [self EXCEPT !.stake = @ + max(0, reward)]
    IN  [s1 EXCEPT !.stake_history = Append(@, s1.stake)]

update_stake_stale_history(self, reward) ==
    LET s1 == [self EXCEPT !.stake = @ + reward]
        s2 == [s1 EXCEPT !.stake_history = Append(@, s1.stake)]
    IN  [s2 EXCEPT !.stake = max(0, @)]

update_stake(self, reward) ==
    LET s1 == [self EXCEPT !.stake = @ + reward]
        s2 == [s1 EXCEPT !.stake = max(0, @)]
    IN  [s2 EXCEPT !.stake_history = Append(@, s2.stake)]

(***************************************************************************)
(* ModelUpdate and its signature.  The tag is the first 16 hex digits of   *)
(* sha256 over the text f"{node_id}{round_number}": the two numbers in     *)
(* decimal, one after the other, with nothing between them.  The digest is *)
(* modelled as injective on that text (equal texts give equal tags, and    *)
(* collisions of the truncated digest are left out), so a tag is the text  *)
(* itself, a sequence of decimal digits.                                   *)
(***************************************************************************)
RECURSIVE str(_)
str(n) == IF n < 10 THEN <<n>> ELSE str(n \div 10) \o <<n % 10>>

signing_text(node_id, round_no) == str(node_id) \o str(round_no)

sha256_hex16(text) == text

\* an update stamped and signed for the round before the one it is made in
create_update_previous_round(self, round_no, delta) ==
    [ node_id            |-> self.id,
      round_number       |-> round_no - 1,
      weights            |-> delta,
      stake              |-> self.stake,
      contribution_score |-> self.contribution_score,
      signature          |-> sha256_hex16(signing_text(self.id, round_no - 1)) ]

create_update(self, round_no, delta) ==
    [ node_id            |-> self.id,
      round_number       |-> round_no,
      weights            |-> delta,
      stake              |-> self.stake,
      contribution_score |-> self.contribution_score,
      signature          |-> sha256_hex16(signing_text(self.id, round_no)) ]

verify_signature(u) ==
    u.signature = sha256_hex16(signing_text(u.node_id, u.round_number))

(***************************************************************************)
(* stake_weighted_trimmed_mean: the same code in the POC (ModelUpdate      *)
(* objects) and in the backend (dicts).  np.median over axis 0: per        *)
(* coordinate the middle value of the sorted column, or the mean of the    *)
(* two middle values when the count is even.                               *)
(***************************************************************************)
VecAdd(a, b) == [i \in 1..Len(a) |-> a[i] + b[i]]

\* the middle of the values as they come, without sorting them
np_median_unsorted(vals) ==
    LET n == Len(vals)
    IN  IF n % 2 = 1 THEN vals[(n + 1) \div 2]
        ELSE (vals[n \div 2] + vals[n \div 2 + 1]) \div 2

\* the mean of the values in place of their median
np_mean(vals) == SumSeq(vals) \div Len(vals)

np_median(vals) ==
    LET s == SortSeq(vals, LAMBDA a, b : a < b)
        n == Len(s)
    IN  IF n % 2 = 1 THEN s[(n + 1) \div 2]
        ELSE (s[n \div 2] + s[n \div 2 + 1]) \div 2

median_axis0(stacked) ==
    [c \in 1..Len(stacked[1]) |->
        np_median([i \in 1..Len(stacked) |-> stacked[i][c]])]

stake_weighted_trimmed_mean_min1(updates) ==
    IF Len(updates) < 1 THEN None
    ELSE LET weights == [i \in 1..Len(updates) |->
                            updates[i].stake * updates[i].contribution_score]
         IN  IF SumSeq(weights) <= 0 THEN None
             ELSE median_axis0([i \in 1..Len(updates) |-> updates[i].weights])

\* aggregation that never looks at the sum of the weights
stake_weighted_trimmed_mean_no_weight_check(updates) ==
    IF Len(updates) < 2 THEN None
    ELSE median_axis0([i \in 1..Len(updates) |-> updates[i].weights])

stake_weighted_trimmed_mean(updates) ==
    IF Len(updates) < 2 THEN None
    ELSE LET weights == [i \in 1..Len(updates) |->
                            updates[i].stake * updates[i].contribution_score]
         IN  IF SumSeq(weights) <= 0 THEN None
             ELSE median_axis0([i \in 1..Len(updates) |-> updates[i].weights])

(***************************************************************************)
(* Driver "ledger": one node, update_stake called directly with signed     *)
(* rewards, as test_stake_updates does.                                    *)
(***************************************************************************)
InitialStakes == {0, 10, 1000}
SignedRewards == {-2000, -200, -20, 40, 100}

InitLedger ==
    /\ program = "ledger"
    /\ \E s \in InitialStakes :
          /\ nodes = << NewNode(0, s, TRUE, 0, <<0>>) >>
          /\ initial_stake = << s >>
    /\ update_stake_calls = << 0 >>
    /\ round_number = 0
    /\ metrics_history = <<>>
    /\ rnd = Idle
    /\ upd = Idle
    /\ krum = Idle
    /\ agg = Idle
    /\ threads = Idle

UpdateStake(n, reward) ==
    /\ program = "ledger"
    /\ update_stake_calls[n] < MaxCalls
    /\ nodes' = [nodes EXCEPT ![n] = update_stake(@, reward)]
    /\ update_stake_calls' = [update_stake_calls EXCEPT ![n] = @ + 1]
    /\ rnd' = [op |-> "update_stake", node |-> n, reward |-> reward,
               old_stake |-> nodes[n].stake]
    /\ UNCHANGED <<program, initial_stake, round_number, metrics_history, upd, krum, agg, threads>>

(***************************************************************************)
(* Driver "poc": FederatedCoordinator over a caller-built node list.       *)
(* run_round has no await in it, so one call is one step.                  *)
(***************************************************************************)
MinSamples == 2
MinUpdates == 2
BaseReward == 50
Penalty    == -20
Jitter     == {-10, 10}          \* random.uniform(-10, 10), its two ends
Deltas     == { <<2>>, <<6>> }   \* what local training may return
PocStakes  == {0, 10, 1000}
Readings   == {1, 2}             \* len(data_buffer) when the rounds start

\* The draws of one round, one per node: the same value for every node, or the
\* two values in turn along the list.
Draws(N, S) ==
    { [n \in 1..N |-> v] : v \in S } \cup
    { [n \in 1..N |-> IF n % 2 = 1 THEN v ELSE w] : v \in S, w \in S }

\* train_local: None with fewer than 2 readings, else the weight delta of training
train_local(self, delta) ==
    IF self.data_buffer < MinSamples THEN None ELSE delta

apply_update(self, aggregated) ==
    [self EXCEPT !.model = VecAdd(@, aggregated)]

\* run_round, step 1: the loop over online_nodes, from position n on
\* (updates[i] was appended for the node at position sources[i] of the list)
RECURSIVE collect_updates(_, _, _, _, _, _)
collect_updates(ns, r, delta, n, updates, sources) ==
    IF n > Len(ns) THEN [nodes |-> ns, updates |-> updates, sources |-> sources]
    ELSE IF ~ns[n].is_online
         THEN collect_updates(ns, r, delta, n + 1, updates, sources)
    ELSE LET d == train_local(ns[n], delta[n])
         IN  IF d = None THEN collect_updates(ns, r, delta, n + 1, updates, sources)
             ELSE LET node1  == [ns[n] EXCEPT !.model = VecAdd(@, d)]
                      update == create_update(node1, r, d)
                  IN  IF verify_signature(update)
                      THEN collect_updates(
                               [ns EXCEPT ![n] = [node1 EXCEPT !.last_update_round = r]],
                               r, delta, n + 1, Append(updates, update),
                               Append(sources, n))
                      ELSE collect_updates([ns EXCEPT ![n] = node1],
                                           r, delta, n + 1, updates, sources)

\* a step 2 that takes the first update's weights when the aggregator gives None
aggregate_falls_back(updates) ==
    IF Len(updates) >= MinUpdates
    THEN IF stake_weighted_trimmed_mean(updates) # None
         THEN stake_weighted_trimmed_mean(updates)
         ELSE updates[1].weights
    ELSE None

\* run_round, step 2: the consensus vector, or None
aggregate(updates) ==
    IF Len(updates) >= MinUpdates THEN stake_weighted_trimmed_mean(updates) ELSE None

apply_to_online(ns, aggregated) ==
    IF aggregated = None THEN ns
    ELSE [n \in 1..Len(ns) |->
            IF ns[n].is_online THEN apply_update(ns[n], aggregated) ELSE ns[n]]

\* run_round, step 3: the reward of one online node
round_reward(self, r, jit) ==
    IF self.last_update_round = r THEN BaseReward + jit ELSE Penalty

distribute_rewards_all_nodes(ns, r, jitter) ==
    [n \in 1..Len(ns) |-> update_stake(ns[n], round_reward(ns[n], r, jitter[n]))]

distribute_rewards(ns, r, jitter) ==
    [n \in 1..Len(ns) |->
        IF ns[n].is_online
        THEN update_stake(ns[n], round_reward(ns[n], r, jitter[n]))
        ELSE ns[n]]

total_stake(ns) == SumSeq([n \in 1..Len(ns) |-> ns[n].stake])

\* a round that takes two numbers at once
run_round_skips_a_number(ns, r0, delta, jitter) ==
    LET r          == r0 + 2
        collected  == collect_updates(ns, r, delta, 1, <<>>, <<>>)
        updates    == collected.updates
        aggregated == aggregate(updates)
        applied    == apply_to_online(collected.nodes, aggregated)
        rewarded   == distribute_rewards(applied, r, jitter)
    IN  [ nodes        |-> rewarded,
          round_number |-> r,
          updates      |-> updates,
          sources      |-> collected.sources,
          aggregated   |-> aggregated,
          metrics      |-> [ round_number        |-> r,
                             active_nodes        |-> Len(ns),
                             participation       |-> Len(updates),
                             aggregation_success |-> aggregated # None,
                             total_stake         |-> total_stake(rewarded) ] ]

run_round(ns, r0, delta, jitter) ==
    LET r          == r0 + 1
        collected  == collect_updates(ns, r, delta, 1, <<>>, <<>>)
        updates    == collected.updates
        aggregated == aggregate(updates)
        applied    == apply_to_online(collected.nodes, aggregated)
        rewarded   == distribute_rewards(applied, r, jitter)
    IN  [ nodes        |-> rewarded,
          round_number |-> r,
          updates      |-> updates,
          sources      |-> collected.sources,
          aggregated   |-> aggregated,
          metrics      |-> [ round_number        |-> r,
                             active_nodes        |-> Len(ns),
                             participation       |-> Len(updates),
                             aggregation_success |-> aggregated # None,
                             total_stake         |-> total_stake(rewarded) ] ]

InitPoc ==
    /\ program = "poc"
    /\ \E N \in 1..MaxNodes :
       \E s \in PocStakes, on \in [1..N -> BOOLEAN], data \in [1..N -> Readings],
          clash \in BOOLEAN :
          \* (what a node that is not online has collected is never read)
          /\ \A n \in 1..N : ~on[n] => data[n] = MinSamples
          \* (the list has at least one node, as every coordinator of the
          \* repository has; on an empty list run_round stops at the division
          \* by len(self.nodes))
          \* node i has id i, as range(num_nodes) gives, or the last node of the
          \* list was built with the id of the first
          /\ nodes = [n \in 1..N |->
                        NewNode(IF clash /\ n = N THEN 0 ELSE n - 1,
                                s, on[n], data[n], <<0>>)]
          /\ initial_stake = [n \in 1..N |-> s]
          /\ update_stake_calls = [n \in 1..N |-> 0]
    /\ round_number = 0
    /\ metrics_history = <<>>
    /\ rnd = Idle
    /\ upd = Idle
    /\ krum = Idle
    /\ agg = Idle
    /\ threads = Idle

RunRound ==
    /\ program = "poc"
    /\ round_number < MaxRounds
    /\ \E delta \in Draws(Len(nodes), Deltas), jitter \in Draws(Len(nodes), Jitter) :
       \E res \in {run_round(nodes, round_number, delta, jitter)} :
              /\ nodes' = res.nodes
              /\ round_number' = res.round_number
              /\ metrics_history' = Append(metrics_history, res.metrics)
              /\ update_stake_calls' =
                    [n \in 1..Len(nodes) |->
                        update_stake_calls[n] + (IF nodes[n].is_online THEN 1 ELSE 0)]
              /\ rnd' = [ op         |-> "run_round",
                          round      |-> res.round_number,
                          updates    |-> res.updates,
                          sources    |-> res.sources,
                          aggregated |-> res.aggregated,
                          trained    |-> [n \in 1..Len(nodes) |->
                                            IF nodes[n].is_online
                                            THEN train_local(nodes[n], delta[n])
                                            ELSE None] ]
    /\ UNCHANGED <<program, initial_stake, upd, krum, agg, threads>>

(***************************************************************************)
(* Driver "backend": the global node list of initialize_system and the     *)
(* fl_round handler, one invocation at a time.                             *)
(***************************************************************************)
BackendStakes  == {800, 1200}        \* 1000 + random.uniform(-200, 200), its two ends
BackendWeights == { <<0>>, <<4>> }   \* the models' initial random weights

\* train_local_ano returns the local model's weights and leaves them as they are
train_local_ano(self) == self.model

set_weights(self, weights) == [self EXCEPT !.model = weights]

fl_round(ns, r0, jitter) ==
    LET r          == r0 + 1
        updates    == [n \in 1..Len(ns) |->
                         [ node_id            |-> ns[n].id,
                           weights            |-> train_local_ano(ns[n]),
                           stake              |-> ns[n].stake,
                           contribution_score |-> ns[n].contribution_score ]]
        aggregated == stake_weighted_trimmed_mean(updates)
        applied    == IF aggregated # None
                      THEN [n \in 1..Len(ns) |-> set_weights(ns[n], aggregated)]
                      ELSE ns
        rewarded   == [n \in 1..Len(ns) |->
                         update_stake(applied[n], BaseReward + jitter[n])]
    IN  [ nodes        |-> rewarded,
          round_number |-> r,
          updates      |-> updates,
          sources      |-> [n \in 1..Len(ns) |-> n],
          aggregated   |-> aggregated,
          response     |-> [ round        |-> r,
                             participants |-> Len(updates),
                             total_stake  |-> total_stake(rewarded) ] ]

InitBackend ==
    /\ program = "backend"
    /\ \E N \in 1..MaxNodes :
       \E st \in [1..N -> BackendStakes], w \in [1..N -> BackendWeights] :
          /\ nodes = [n \in 1..N |-> NewNode(n - 1, st[n], TRUE, 0, w[n])]
          /\ initial_stake = st
          /\ update_stake_calls = [n \in 1..N |-> 0]
    /\ round_number = 0
    /\ metrics_history = <<>>
    /\ rnd = Idle
    /\ upd = Idle
    /\ krum = Idle
    /\ agg = Idle
    /\ threads = Idle

FlRound ==
    /\ program = "backend"
    /\ round_number < MaxRounds
    /\ \E jitter \in Draws(Len(nodes), Jitter) :
       \E res \in {fl_round(nodes, round_number, jitter)} :
              /\ nodes' = res.nodes
              /\ round_number' = res.round_number
              /\ update_stake_calls' = [n \in 1..Len(nodes) |-> update_stake_calls[n] + 1]
              /\ rnd' = [ op         |-> "fl_round",
                          round      |-> res.round_number,
                          updates    |-> res.updates,
                          sources    |-> res.sources,
                          aggregated |-> res.aggregated,
                          response   |-> res.response ]
    /\ UNCHANGED <<program, initial_stake, metrics_history, upd, krum, agg, threads>>

(***************************************************************************)
(* Driver "sig": one ModelUpdate.  create_update signs it for its own      *)
(* (node_id, round_number); the dataclass takes any field values, so an    *)
(* update may also carry a tag that was made for another pair; then        *)
(* verify_signature is called on it.                                       *)
(***************************************************************************)
InitSig ==
    /\ program = "sig"
    /\ nodes = <<>>
    /\ initial_stake = <<>>
    /\ update_stake_calls = <<>>
    /\ round_number = 0
    /\ metrics_history = <<>>
    /\ rnd = Idle
    /\ upd = Idle
    /\ krum = Idle
    /\ agg = Idle
    /\ threads = Idle

SigCreate(node_id, round_no) ==
    /\ program = "sig"
    /\ upd.op = "none"
    /\ upd' = [ op         |-> "created",
                update     |-> create_update(NewNode(node_id, 1000, TRUE, 2, <<0>>),
                                             round_no, <<2>>),
                signed_for |-> <<node_id, round_no>> ]
    /\ UNCHANGED <<program, nodes, initial_stake, update_stake_calls, round_number,
                   metrics_history, rnd, krum, agg, threads>>

\* ModelUpdate(node_id, round_no, ..., signature = the tag made for signed_for)
SigCarry(node_id, round_no) ==
    /\ program = "sig"
    /\ upd.op = "created"
    /\ <<node_id, round_no>> # upd.signed_for
    /\ upd' = [upd EXCEPT !.op = "carried",
                          !.update = [@ EXCEPT !.node_id = node_id,
                                               !.round_number = round_no]]
    /\ UNCHANGED <<program, nodes, initial_stake, update_stake_calls, round_number,
                   metrics_history, rnd, krum, agg, threads>>

\* run_round's treatment of one update (lines 384-386) that appends it unchecked
accept_update_unchecked(update, updates, last_update_round) ==
    [ updates |-> Append(updates, update), last_update_round |-> update.round_number ]

\* run_round's treatment of one update: appended to the round's updates, and
\* its node's last_update_round set to the round, only if its signature verifies
accept_update(update, updates, last_update_round) ==
    IF verify_signature(update)
    THEN [ updates |-> Append(updates, update), last_update_round |-> update.round_number ]
    ELSE [ updates |-> updates, last_update_round |-> last_update_round ]

SigVerify ==
    /\ program = "sig"
    /\ upd.op \in {"created", "carried"}
    /\ upd' = [ op         |-> "verified",
                update     |-> upd.update,
                signed_for |-> upd.signed_for,
                accepted   |-> verify_signature(upd.update) ]
    /\ UNCHANGED <<program, nodes, initial_stake, update_stake_calls, round_number,
                   metrics_history, rnd, krum, agg, threads>>

\* the update is presented to the collection loop of a round that has no
\* update yet, for a node that has not contributed before
SigCollect ==
    /\ program = "sig"
    /\ upd.op = "verified"
    /\ LET out == accept_update(upd.update, <<>>, 0)
       IN  upd' = [ op                |-> "collected",
                    update            |-> upd.update,
                    signed_for        |-> upd.signed_for,
                    accepted          |-> upd.accepted,
                    updates           |-> out.updates,
                    last_update_round |-> out.last_update_round ]
    /\ UNCHANGED <<program, nodes, initial_stake, update_stake_calls, round_number,
                   metrics_history, rnd, krum, agg, threads>>

NextSig ==
    \/ \E i \in 0..MaxSigNode, r \in 0..MaxSigRound : SigCreate(i, r)
    \/ \E i \in 0..MaxSigNode, r \in 0..MaxSigRound : SigCarry(i, r)
    \/ SigVerify
    \/ SigCollect

SpecSig == InitSig /\ [][NextSig]_vars

(***************************************************************************)
(* Driver "krum": MultiKrumStrategy (src/aggregator.py).  A client's       *)
(* weights are a list of layers, each a vector.                            *)
(*                                                                         *)
(* np.linalg.norm gives the Euclidean norm as a float; the model takes its *)
(* integer part.  The inputs are drawn so that this keeps the order of the *)
(* scores: vectors of one coordinate (the norm is the absolute difference, *)
(* exact), and the scenario of two vectors [1,1,1] and [1000,1000,1000]    *)
(* (one non-zero distance, so every score is a multiple of it).            *)
(***************************************************************************)
RECURSIVE isqrt_between(_, _, _)
isqrt_between(n, lo, hi) ==
    IF lo >= hi THEN lo
    ELSE LET mid == (lo + hi + 1) \div 2
         IN  IF mid * mid <= n THEN isqrt_between(n, mid, hi)
             ELSE isqrt_between(n, lo, mid - 1)

isqrt(n) == isqrt_between(n, 0, min(n, 46340))

\* np.concatenate([w.flatten() for w in weights])
RECURSIVE flatten(_)
flatten(weights) ==
    IF weights = <<>> THEN <<>> ELSE Head(weights) \o flatten(Tail(weights))

\* np.linalg.norm(a - b)
np_linalg_norm_diff(a, b) ==
    isqrt(SumSeq([c \in 1..Len(a) |-> (a[c] - b[c]) * (a[c] - b[c])]))

\* Python's s[start:stop] on a sequence of n items, start and stop of either sign
py_index(k, n) == IF k < 0 THEN max(k + n, 0) ELSE min(k, n)

py_slice(s, start, stop) ==
    LET a == py_index(start, Len(s))
        b == py_index(stop, Len(s))
    IN  IF b <= a THEN <<>> ELSE SubSeq(s, a + 1, b)

\* a matrix that gets dist at [i, j] only, for i < j
distance_matrix_upper_only(flattened) ==
    [i \in 1..Len(flattened) |->
        [j \in 1..Len(flattened) |->
            IF i < j THEN np_linalg_norm_diff(flattened[i], flattened[j]) ELSE 0]]

\* the distance matrix: zeros, then dist written at [i, j] and [j, i] for i < j
distance_matrix(flattened) ==
    [i \in 1..Len(flattened) |->
        [j \in 1..Len(flattened) |->
            IF i = j THEN 0
            ELSE np_linalg_norm_diff(flattened[min(i, j)], flattened[max(i, j)])]]

\* a score that keeps the first entry of the sorted row (the self-distance)
krum_score_keeps_self(distances, i, num_neighbors) ==
    SumSeq(py_slice(SortSeq(distances[i], LAMBDA a, b : a < b), 0, num_neighbors))

\* the Krum score of candidate i: the sorted row without its first entry, up to
\* num_neighbors entries of it
krum_score(distances, i, num_neighbors) ==
    SumSeq(py_slice(SortSeq(distances[i], LAMBDA a, b : a < b), 1, num_neighbors + 1))

\* a sort on the score alone that leaves the order of equal scores to the call
sorted_scores_by_score_only(distances, num_neighbors) ==
    SortSeq([i \in 1..Len(distances) |-> <<krum_score(distances, i, num_neighbors), i - 1>>],
            LAMBDA a, b : a[1] < b[1] \/
                          (a[1] = b[1] /\ IF krum.server_round % 2 = 0
                                          THEN a[2] < b[2] ELSE a[2] > b[2]))

\* equal scores ranked by the larger index first
sorted_scores_larger_index_first(distances, num_neighbors) ==
    SortSeq([i \in 1..Len(distances) |-> <<krum_score(distances, i, num_neighbors), i - 1>>],
            LAMBDA a, b : a[1] < b[1] \/ (a[1] = b[1] /\ a[2] > b[2]))

\* scores.sort() on the (score, i) tuples; positions are 0-based as in the source
sorted_scores(distances, num_neighbors) ==
    SortSeq([i \in 1..Len(distances) |-> <<krum_score(distances, i, num_neighbors), i - 1>>],
            LAMBDA a, b : a[1] < b[1] \/ (a[1] = b[1] /\ a[2] < b[2]))

num_selection(n, m) == min(n - 2 * m + 2, n)

\* a selection that returns every chosen index twice
_multi_krum_select_with_repeats(weights_list, m) ==
    LET n         == Len(weights_list)
        flattened == [i \in 1..n |-> flatten(weights_list[i])]
        distances == distance_matrix(flattened)
        scores    == sorted_scores(distances, n - m - 2)
        chosen    == py_slice(scores, 0, num_selection(n, m))
    IN  [k \in 1..(2 * Len(chosen)) |-> chosen[(k + 1) \div 2][2]]

_multi_krum_select(weights_list, m) ==
    LET n         == Len(weights_list)
        flattened == [i \in 1..n |-> flatten(weights_list[i])]
        distances == distance_matrix(flattened)
        scores    == sorted_scores(distances, n - m - 2)
        chosen    == py_slice(scores, 0, num_selection(n, m))
    IN  [k \in 1..Len(chosen) |-> chosen[k][2]]

\* layer_sum / n per layer: each coordinate is kept as the pair sum, n.
\* weights_list[0] of an empty list raises IndexError.
_aggregate_weights(weights_list) ==
    IF weights_list = <<>> THEN [raises |-> "IndexError", value |-> <<>>]
    ELSE LET n == Len(weights_list)
         IN  [ raises |-> "",
               value  |-> [l \in 1..Len(weights_list[1]) |->
                            [c \in 1..Len(weights_list[1][l]) |->
                                [ sum |-> SumSeq([i \in 1..n |-> weights_list[i][l][c]]),
                                  n   |-> n ]]] ]

\* aggregate_fit: what it returns or raises, and the two counters after it
aggregate_fit(self, results) ==
    IF results = <<>>
    THEN [self EXCEPT !.op = "aggregate_fit", !.results = results,
                      !.selected = <<>>, !.outcome = "None",
                      !.server_round = @ + 1]
    ELSE LET selected_indices == _multi_krum_select(results, self.num_byzantine)
             byzantine_count  == Len(results) - Len(selected_indices)
             aggregated       ==
                 _aggregate_weights([k \in 1..Len(selected_indices) |->
                                        results[selected_indices[k] + 1]])
         IN  IF byzantine_count < 0
             THEN [self EXCEPT !.op = "aggregate_fit", !.results = results,
                               !.selected = selected_indices,
                               !.outcome = "ValueError",
                               !.server_round = @ + 1]
             ELSE IF aggregated.raises = "IndexError"
             THEN [self EXCEPT !.op = "aggregate_fit", !.results = results,
                               !.selected = selected_indices,
                               !.outcome = "IndexError",
                               !.byzantine_counter = @ + byzantine_count,
                               !.server_round = @ + 1]
             ELSE [self EXCEPT !.op = "aggregate_fit", !.results = results,
                               !.selected = selected_indices,
                               !.outcome = "parameters",
                               !.aggregated = aggregated.value,
                               !.byzantine_counter = @ + byzantine_count,
                               !.round_counter = @ + 1,
                               !.server_round = @ + 1]

KrumValues == {0, 1, 5}
Honest     == << <<1, 1, 1>> >>
Byzantine  == << <<1000, 1000, 1000>> >>

\* the results of a round: up to MaxClients one-layer, one-coordinate weights
SmallResults ==
    UNION { [1..N -> { << <<v>> >> : v \in KrumValues }] : N \in 0..MaxClients }

\* 10 results, 8 of them Honest and 2 Byzantine, at any positions
ScenarioResults ==
    { [i \in 1..10 |-> IF i \in B THEN Byzantine ELSE Honest] :
        B \in { X \in SUBSET (1..10) : Cardinality(X) = 2 } }

InitKrum ==
    /\ program = "krum"
    /\ nodes = <<>>
    /\ initial_stake = <<>>
    /\ update_stake_calls = <<>>
    /\ round_number = 0
    /\ metrics_history = <<>>
    /\ rnd = Idle
    /\ upd = Idle
    /\ agg = Idle
    /\ threads = Idle
    /\ \E m \in 0..MaxByzantine :
       \E results \in (SmallResults \cup IF m = 2 THEN ScenarioResults ELSE {}) :
          krum = [ op                |-> "init",
                   num_byzantine     |-> m,
                   results           |-> results,
                   selected          |-> <<>>,
                   outcome           |-> "None",
                   aggregated        |-> <<>>,
                   byzantine_counter |-> 0,
                   round_counter     |-> 0,
                   server_round      |-> 0 ]

\* the server calls aggregate_fit with the round's results
AggregateFit ==
    /\ program = "krum"
    /\ krum.server_round < MaxServerRounds
    /\ krum.outcome \notin {"IndexError", "ValueError"}
    /\ krum' = aggregate_fit(krum, krum.results)
    /\ UNCHANGED <<program, nodes, initial_stake, update_stake_calls, round_number,
                   metrics_history, rnd, upd, agg, threads>>

NextKrum == AggregateFit

SpecKrum == InitKrum /\ [][NextKrum]_vars

(***************************************************************************)
(* Driver "agg": the two aggregation functions on a list of updates that   *)
(* the caller hands over, then on the same updates in another order.       *)
(* stake_weighted_trimmed_mean takes the ModelUpdates; _aggregate_weights  *)
(* takes their weights as one-layer weight lists.  np_median keeps the     *)
(* integer part of the mean of the two middle values ([5] and [10] give 7  *)
(* where numpy gives 7.5).                                                 *)
(***************************************************************************)
HonestVectors  == { <<5, 5, 5>>, <<10, 10, 10>> }
OutlierVectors == { <<1000, 1000, 1000>>, <<-1000, -1000, -1000>> }
AggStakes      == {0, 10, 90}

\* ModelUpdate objects as the aggregator reads them (contribution_score is 1.0
\* in every node)
ModelUpdate(w, st) == [weights |-> w, stake |-> st, contribution_score |-> 1]

\* both aggregators on one list of updates
aggregate_both(updates) ==
    [ result |-> stake_weighted_trimmed_mean(updates),
      mean   |-> _aggregate_weights([i \in 1..Len(updates) |-> << updates[i].weights >>]) ]

swap(updates, i) ==
    [k \in 1..Len(updates) |->
        IF k = i THEN updates[i + 1] ELSE IF k = i + 1 THEN updates[i] ELSE updates[k]]

InitAgg ==
    /\ program = "agg"
    /\ nodes = <<>>
    /\ initial_stake = <<>>
    /\ update_stake_calls = <<>>
    /\ round_number = 0
    /\ metrics_history = <<>>
    /\ rnd = Idle
    /\ upd = Idle
    /\ krum = Idle
    /\ threads = Idle
    /\ \E N \in 0..MaxUpdates :
       \E w \in [1..N -> HonestVectors \cup OutlierVectors], st \in Draws(N, AggStakes) :
          agg = [ op |-> "init", updates |-> [i \in 1..N |-> ModelUpdate(w[i], st[i])] ]

Aggregate ==
    /\ program = "agg"
    /\ agg.op = "init"
    /\ LET out == aggregate_both(agg.updates)
       IN  agg' = [ op |-> "aggregated", updates |-> agg.updates,
                    result |-> out.result, mean |-> out.mean ]
    /\ UNCHANGED <<program, nodes, initial_stake, update_stake_calls, round_number,
                   metrics_history, rnd, upd, krum, threads>>

\* the same updates with two neighbours exchanged, aggregated again
AggregatePermuted(i) ==
    /\ program = "agg"
    /\ agg.op \in {"aggregated", "permuted"}
    /\ i \in 1..(Len(agg.updates) - 1)
    /\ agg.updates[i] # agg.updates[i + 1]
    /\ LET permuted == swap(agg.updates, i)
           out      == aggregate_both(permuted)
       IN  agg' = [ op |-> "permuted", updates |-> permuted,
                    result |-> out.result, mean |-> out.mean,
                    swapped |-> i,
                    prev_result |-> agg.result, prev_mean |-> agg.mean ]
    /\ UNCHANGED <<program, nodes, initial_stake, update_stake_calls, round_number,
                   metrics_history, rnd, upd, krum, threads>>

NextAgg ==
    \/ Aggregate
    \/ \E i \in 1..MaxUpdates : AggregatePermuted(i)

SpecAgg == InitAgg /\ [][NextAgg]_vars

(***************************************************************************)
(* Driver "threads": the backend as it runs.  fl_round is called by the    *)
(* background_fl thread and by the server's handler of POST /fl_round;     *)
(* nothing in the module takes a lock, so the two calls interleave between *)
(* any two reads or writes of the shared objects (the node list and        *)
(* fl_round_number).  A statement that reads and then writes a shared      *)
(* field (x += 1, self.stake += reward, self.stake = max(0, self.stake))   *)
(* is two steps, the read and the write; list.append is one step.          *)
(***************************************************************************)
Threads == {"background_fl", "request"}

ThreadIdle(N) ==
    [ pc         |-> "idle",
      i          |-> 0,          \* position in the loop over nodes
      tmp        |-> 0,          \* the value read by the statement under way
      jitter     |-> <<>>,       \* this call's random draws, one per node (all alike)
      updates    |-> <<>>,
      aggregated |-> None ]

InitThreads ==
    /\ program = "threads"
    /\ \E N \in 1..MaxThreadNodes :
       \E s \in BackendStakes, w \in Draws(N, BackendWeights) :
          /\ nodes = [n \in 1..N |-> NewNode(n - 1, s, TRUE, 0, w[n])]
          /\ initial_stake = [n \in 1..N |-> s]
          /\ update_stake_calls = [n \in 1..N |-> 0]
          /\ threads = [ t \in Threads |->
                           [ locals   |-> ThreadIdle(N),
                             calls    |-> 0,
                             paid     |-> [n \in 1..N |-> 0],
                             response |-> None ] ]
    /\ round_number = 0
    /\ metrics_history = <<>>
    /\ rnd = Idle
    /\ upd = Idle
    /\ krum = Idle
    /\ agg = Idle

ThreadUnchanged == UNCHANGED <<program, initial_stake, metrics_history, rnd, upd, krum, agg>>

CallsStarted ==
    SumSeq([k \in 1..2 |->
              LET t == IF k = 1 THEN "background_fl" ELSE "request"
              IN  threads[t].calls + (IF threads[t].locals.pc = "idle" THEN 0 ELSE 1)])

\* fl_round is entered; fl_round_number += 1 reads the global
FlEnter(t) ==
    /\ program = "threads"
    /\ threads[t].locals.pc = "idle"
    /\ CallsStarted < MaxRounds
    /\ \E j \in Jitter :
          threads' = [threads EXCEPT ![t].locals =
                         [ThreadIdle(Len(nodes)) EXCEPT !.pc = "inc_store",
                                                        !.tmp = round_number,
                                                        !.jitter = [n \in 1..Len(nodes) |-> j]]]
    /\ UNCHANGED <<nodes, update_stake_calls, round_number>>
    /\ ThreadUnchanged

\* fl_round_number += 1 writes the global
FlIncStore(t) ==
    /\ program = "threads"
    /\ threads[t].locals.pc = "inc_store"
    /\ round_number' = threads[t].locals.tmp + 1
    /\ threads' = [threads EXCEPT ![t].locals.pc = "collect", ![t].locals.i = 1]
    /\ UNCHANGED <<nodes, update_stake_calls>>
    /\ ThreadUnchanged

\* one turn of the loop that collects the updates
FlCollect(t) ==
    /\ program = "threads"
    /\ threads[t].locals.pc = "collect"
    /\ LET l    == threads[t].locals
           node == nodes[l.i]
           u    == [ node_id            |-> node.id,
                     weights            |-> train_local_ano(node),
                     stake              |-> node.stake,
                     contribution_score |-> node.contribution_score ]
       IN  threads' = [threads EXCEPT ![t].locals =
                          [l EXCEPT !.updates = Append(@, u),
                                    !.i = IF l.i = Len(nodes) THEN 0 ELSE l.i + 1,
                                    !.pc = IF l.i = Len(nodes) THEN "aggregate" ELSE "collect"]]
    /\ UNCHANGED <<nodes, update_stake_calls, round_number>>
    /\ ThreadUnchanged

FlAggregate(t) ==
    /\ program = "threads"
    /\ threads[t].locals.pc = "aggregate"
    /\ LET l          == threads[t].locals
           aggregated == stake_weighted_trimmed_mean(l.updates)
       IN  threads' = [threads EXCEPT ![t].locals =
                          [l EXCEPT !.aggregated = aggregated,
                                    !.i = 1,
                                    !.pc = IF aggregated # None THEN "apply"
                                           ELSE "reward_load"]]
    /\ UNCHANGED <<nodes, update_stake_calls, round_number>>
    /\ ThreadUnchanged

\* one turn of the loop that applies the aggregate
FlApply(t) ==
    /\ program = "threads"
    /\ threads[t].locals.pc = "apply"
    /\ LET l == threads[t].locals
       IN  /\ nodes' = [nodes EXCEPT ![l.i] = set_weights(@, l.aggregated)]
           /\ threads' = [threads EXCEPT ![t].locals =
                              [l EXCEPT !.i = IF l.i = Len(nodes) THEN 1 ELSE l.i + 1,
                                        !.pc = IF l.i = Len(nodes) THEN "reward_load"
                                               ELSE "apply"]]
    /\ UNCHANGED <<update_stake_calls, round_number>>
    /\ ThreadUnchanged

\* update_stake, self.stake += reward: the read
FlRewardLoad(t) ==
    /\ program = "threads"
    /\ threads[t].locals.pc = "reward_load"
    /\ threads' = [threads EXCEPT ![t].locals.tmp = nodes[threads[t].locals.i].stake,
                                  ![t].locals.pc = "reward_store"]
    /\ UNCHANGED <<nodes, update_stake_calls, round_number>>
    /\ ThreadUnchanged

\* update_stake, self.stake += reward: the write
FlRewardStore(t) ==
    /\ program = "threads"
    /\ threads[t].locals.pc = "reward_store"
    /\ LET l      == threads[t].locals
           reward == BaseReward + l.jitter[l.i]
       IN  /\ nodes' = [nodes EXCEPT ![l.i].stake = l.tmp + reward]
           /\ threads' = [threads EXCEPT ![t].locals.pc = "clamp_load",
                                         ![t].paid[l.i] = @ + reward]
    /\ UNCHANGED <<update_stake_calls, round_number>>
    /\ ThreadUnchanged

\* update_stake, self.stake = max(0, self.stake): the read
FlClampLoad(t) ==
    /\ program = "threads"
    /\ threads[t].locals.pc = "clamp_load"
    /\ threads' = [threads EXCEPT ![t].locals.tmp = nodes[threads[t].locals.i].stake,
                                  ![t].locals.pc = "clamp_store"]
    /\ UNCHANGED <<nodes, update_stake_calls, round_number>>
    /\ ThreadUnchanged

\* update_stake, self.stake = max(0, self.stake): the write
FlClampStore(t) ==
    /\ program = "threads"
    /\ threads[t].locals.pc = "clamp_store"
    /\ LET l == threads[t].locals
       IN  nodes' = [nodes EXCEPT ![l.i].stake = max(0, l.tmp)]
    /\ threads' = [threads EXCEPT ![t].locals.pc = "append"]
    /\ UNCHANGED <<update_stake_calls, round_number>>
    /\ ThreadUnchanged

\* update_stake, self.stake_history.append(self.stake); then the next node
FlAppendHistory(t) ==
    /\ program = "threads"
    /\ threads[t].locals.pc = "append"
    /\ LET l == threads[t].locals
       IN  /\ nodes' = [nodes EXCEPT ![l.i].stake_history = Append(@, nodes[l.i].stake)]
           /\ update_stake_calls' = [update_stake_calls EXCEPT ![l.i] = @ + 1]
           /\ threads' = [threads EXCEPT ![t].locals =
                              [l EXCEPT !.i = IF l.i = Len(nodes) THEN 0 ELSE l.i + 1,
                                        !.tmp = 0,
                                        !.pc = IF l.i = Len(nodes) THEN "respond"
                                               ELSE "reward_load"]]
    /\ UNCHANGED round_number
    /\ ThreadUnchanged

\* the response is built from the globals as they are now, and fl_round returns
FlRespond(t) ==
    /\ program = "threads"
    /\ threads[t].locals.pc = "respond"
    /\ threads' = [threads EXCEPT
                      ![t].response = [ round        |-> round_number,
                                        participants |-> Len(threads[t].locals.updates),
                                        total_stake  |-> total_stake(nodes) ],
                      ![t].calls = @ + 1,
                      ![t].locals = ThreadIdle(Len(nodes))]
    /\ UNCHANGED <<nodes, update_stake_calls, round_number>>
    /\ ThreadUnchanged

NextThreads ==
    \E t \in Threads :
        \/ FlEnter(t)
        \/ FlIncStore(t)
        \/ FlCollect(t)
        \/ FlAggregate(t)
        \/ FlApply(t)
        \/ FlRewardLoad(t)
        \/ FlRewardStore(t)
        \/ FlClampLoad(t)
        \/ FlClampStore(t)
        \/ FlAppendHistory(t)
        \/ FlRespond(t)

SpecThreads == InitThreads /\ [][NextThreads]_vars

Init == InitLedger \/ InitPoc \/ InitBackend

Next ==
    \/ \E n \in 1..Len(nodes), r \in SignedRewards : UpdateStake(n, r)
    \/ RunRound
    \/ FlRound

Spec == Init /\ [][Next]_vars

(***************************************************************************)
(* Properties.                                                             *)
(***************************************************************************)
NodeIx == 1..Len(nodes)

\* a step that is one whole round (run_round or fl_round)
RoundStep == round_number' = round_number + 1

\* in the round just run, the node at position n had an update accepted
Contributed(n) == \E i \in 1..Len(rnd'.sources) : rnd'.sources[i] = n

\* update_stake was called on node n in this step
StakeCalled(n) == update_stake_calls'[n] = update_stake_calls[n] + 1

HistoryAppended(n) ==
    LET h  == nodes[n].stake_history
        h2 == nodes'[n].stake_history
    IN  /\ Len(h2) = Len(h) + 1
        /\ SubSeq(h2, 1, Len(h)) = h

\* C1: after any sequence of update_stake calls with signed rewards, on nodes
\* created with a non-negative initial stake, no node's stake is negative (node
\* of the POC and of the backend, called directly or by a round).
C1_StakeNeverNegative ==
    \A n \in NodeIx : nodes[n].stake >= 0

\* a call whose sum was negative has been clamped
C1_Witness ==
    /\ rnd.op = "update_stake"
    /\ rnd.old_stake + rnd.reward < 0
    /\ nodes[rnd.node].stake = 0

\* C2: every update_stake(reward) call sets the stake to max(0, old + reward):
\* the plain sum when it is non-negative, 0 when it is negative.
C2_UpdateStakeClampedSum ==
    [][ (rnd'.op = "update_stake") =>
            LET n   == rnd'.node
                sum == nodes[n].stake + rnd'.reward
            IN  /\ StakeCalled(n)
                /\ nodes'[n].stake = (IF sum >= 0 THEN sum ELSE 0) ]_vars

\* the test's sequence: 1000, +100 -> 1100, -200 -> 900, -2000 -> 0
C2_Witness ==
    /\ program = "ledger"
    /\ nodes[1].stake_history = <<1000, 1100, 900, 0>>
    /\ nodes[1].stake = 0

\* C3: stake_history is append-only: each update_stake call appends exactly one
\* entry, the stake resulting from the call, and leaves the earlier entries as
\* they were; so the first entry is the initial stake, the length is 1 + the
\* number of calls, and the last entry is the current stake.
C3_HistoryShape ==
    \A n \in NodeIx :
        LET h == nodes[n].stake_history
        IN  /\ h[1] = initial_stake[n]
            /\ Len(h) = 1 + update_stake_calls[n]
            /\ h[Len(h)] = nodes[n].stake

C3_HistoryStep ==
    \A n \in NodeIx :
        IF StakeCalled(n)
        THEN /\ HistoryAppended(n)
             /\ nodes'[n].stake_history[Len(nodes'[n].stake_history)] = nodes'[n].stake
        ELSE nodes'[n].stake_history = nodes[n].stake_history

C3_HistoryAppendOnly ==
    []C3_HistoryShape /\ [][C3_HistoryStep]_vars

\* start 1000, +100 then -2000: stake 0, history [1000, 1100, 0]
C3_Witness ==
    /\ program = "ledger"
    /\ nodes[1].stake_history = <<1000, 1100, 0>>
    /\ nodes[1].stake = 0

\* C4 (as claimed): a round that produces no consensus vector leaves every node's
\* stake and stake_history as they were.
C4_AbortedRoundKeepsStakes ==
    [][ (RoundStep /\ rnd'.aggregated = None) =>
            \A n \in NodeIx :
                /\ nodes'[n].stake = nodes[n].stake
                /\ nodes'[n].stake_history = nodes[n].stake_history ]_vars

\* C5: a round with 0 or 1 accepted updates produces no consensus vector, no
\* node's model is changed by apply_update / set_weights in it (a POC node's
\* model moves by its own training delta only), and the POC's record of the
\* round has aggregation_success = False.
C5_InsufficientUpdatesAbort ==
    [][ (RoundStep /\ Len(rnd'.updates) < MinUpdates) =>
            /\ rnd'.aggregated = None
            /\ \A n \in NodeIx :
                  nodes'[n].model =
                     IF program = "poc" /\ rnd'.trained[n] # None
                     THEN VecAdd(nodes[n].model, rnd'.trained[n])
                     ELSE nodes[n].model
            /\ program = "poc" =>
                  /\ Len(metrics_history') = Len(metrics_history) + 1
                  /\ ~metrics_history'[Len(metrics_history')].aggregation_success ]_vars

\* a POC round with exactly one accepted update has run
C5_Witness ==
    /\ rnd.op = "run_round"
    /\ Len(rnd.updates) = 1
    /\ Len(nodes) >= 2

\* C6 (as claimed): in a completed round every node whose update was accepted
\* gains stake, and every other node of the list is penalised.
Penalised(n) ==
    /\ HistoryAppended(n)
    /\ \/ nodes'[n].stake < nodes[n].stake
       \/ nodes'[n].stake = 0 /\ nodes[n].stake = 0

Rewarded(n) ==
    /\ HistoryAppended(n)
    /\ nodes'[n].stake > nodes[n].stake

C7_OneUpdatePerNodeAndRound ==
    (rnd.op \in {"run_round", "fl_round"}) =>
        \A i, j \in 1..Len(rnd.updates) :
            (i < j) => rnd.updates[i].node_id # rnd.updates[j].node_id

\* C8 (as claimed): verify_signature accepts an update exactly when its tag is
\* the one create_update makes for the update's own (node_id, round_number): an
\* update built by create_update verifies, and a tag made for one pair is
\* rejected on an update that carries another pair.
C8_TagBoundToPair ==
    (upd.op = "verified") =>
        (upd.accepted <=>
            <<upd.update.node_id, upd.update.round_number>> = upd.signed_for)

\* the selection of the aggregate_fit call that ran last, as positions 1..N
KrumN  == Len(krum.results)
KrumK  == KrumN - krum.num_byzantine - 2
KrumScore(i) ==
    krum_score(distance_matrix([j \in 1..KrumN |-> flatten(krum.results[j])]), i, KrumK)
KrumSelected == { krum.selected[k] + 1 : k \in 1..Len(krum.selected) }

\* C9 (as claimed): on 10 results, 8 of them [1,1,1] and 2 of them
\* [1000,1000,1000] at any positions, with f = 2, Multi-Krum returns exactly 6
\* indices, all of honest results, and the mean of the selected set is [1,1,1].
C9_ScenarioSelectsSixHonest ==
    (krum.op = "aggregate_fit" /\ KrumN = 10 /\ krum.num_byzantine = 2) =>
        /\ Len(krum.selected) = 6
        /\ \A i \in KrumSelected : krum.results[i] = Honest
        /\ krum.outcome = "parameters"
        /\ \A c \in 1..3 : krum.aggregated[1][c].sum = 1 * krum.aggregated[1][c].n

\* C10 (as claimed): with k = N - f - 2 > 0 the selection holds exactly
\* keep = max(N - 2f, 1) indices, distinct, and no candidate left out has a
\* lower Krum score than a selected one.
C10_SelectsKeepLowestScores ==
    (krum.op = "aggregate_fit" /\ KrumK > 0) =>
        /\ Len(krum.selected) = max(KrumN - 2 * krum.num_byzantine, 1)
        /\ Cardinality(KrumSelected) = Len(krum.selected)
        /\ KrumSelected \subseteq 1..KrumN
        /\ \A i \in KrumSelected, j \in (1..KrumN) \ KrumSelected :
              KrumScore(i) <= KrumScore(j)

\* C11: when the neighbour count k = N - f - 2 is <= 0 (N >= 2), the selection
\* returns all N indices and aggregate_fit returns parameters aggregated over
\* all of them: it neither fails nor aggregates a smaller or an empty set.
C11_DegenerateSelectsAll ==
    (krum.op = "aggregate_fit" /\ KrumN >= 2 /\ KrumK <= 0) =>
        /\ Len(krum.selected) = KrumN
        /\ KrumSelected = 1..KrumN
        /\ krum.outcome = "parameters"

\* C12: with fewer than 2 results (N = 0 or N = 1) no selection is made and
\* aggregate_fit returns no aggregated parameters.
C12_FewerThanTwoNotAttempted ==
    (krum.op = "aggregate_fit" /\ KrumN < 2) =>
        /\ krum.selected = <<>>
        /\ krum.outcome = "None"

\* C13: the selection is deterministic.  The indices come out in ascending
\* (score, index) order, so equal scores are ordered by index, and a second
\* invocation on the same ordered results with the same Byzantine count
\* returns the same indices in the same order.
C13_SelectedInScoreIndexOrder ==
    krum.op = "aggregate_fit" =>
        \A k \in 1..(Len(krum.selected) - 1) :
            LET a == krum.selected[k] + 1
                b == krum.selected[k + 1] + 1
            IN  \/ KrumScore(a) < KrumScore(b)
                \/ (KrumScore(a) = KrumScore(b) /\ a < b)

C13_RepeatedInvocation ==
    (krum.op = "aggregate_fit" /\ krum'.op = "aggregate_fit"
        /\ krum'.results = krum.results /\ krum'.num_byzantine = krum.num_byzantine)
    => krum'.selected = krum.selected

AggN == Len(agg.updates)
IsOutlier(u) == u.weights \in OutlierVectors
AggHonest   == { i \in 1..AggN : ~IsOutlier(agg.updates[i]) }
AggOutliers == { i \in 1..AggN : IsOutlier(agg.updates[i]) }
abs(x) == IF x < 0 THEN -x ELSE x

C15_OutlierResistance ==
    (/\ agg.op \in {"aggregated", "permuted"}
     /\ AggN >= 2
     /\ AggN - 2 * Cardinality(AggOutliers) >= 1
     /\ agg.result # None)
    => \A c \in 1..Len(agg.result) :
          /\ \E i \in AggHonest : agg.updates[i].weights[c] <= agg.result[c]
          /\ \E i \in AggHonest : agg.updates[i].weights[c] >= agg.result[c]

\* test_byzantine_resistance: three updates [5,5,5] and one [1000,1000,1000]
C15_Witness ==
    /\ agg.op = "aggregated"
    /\ AggN = 4
    /\ Cardinality(AggOutliers) = 1
    /\ \A i \in AggHonest : agg.updates[i].weights = <<5, 5, 5>>
    /\ \A i \in AggOutliers : agg.updates[i].weights = <<1000, 1000, 1000>>
    /\ agg.result = <<5, 5, 5>>

\* C16: an update with a larger weight stake x contribution_score has more
\* influence: of two different updates the result lies nearer, in every
\* coordinate, to the one with the larger weight.
C16_LargerWeightMoreInfluence ==
    (/\ agg.op = "aggregated"
     /\ AggN = 2
     /\ agg.result # None
     /\ agg.updates[1].weights # agg.updates[2].weights
     /\ agg.updates[1].stake * agg.updates[1].contribution_score
          > agg.updates[2].stake * agg.updates[2].contribution_score)
    => \A c \in 1..Len(agg.result) :
          abs(agg.result[c] - agg.updates[1].weights[c])
            < abs(agg.result[c] - agg.updates[2].weights[c])

InRound(t) == threads[t].locals.pc # "idle"

\* thread t has written its aggregate to some nodes of the list and not yet to
\* the others
PartlyApplied(t) ==
    /\ threads[t].locals.pc = "apply"
    /\ threads[t].locals.i > 1

\* C17: rounds never overlap: at most one fl_round is in progress at any time
\* (a round does not start collecting before the round before it has finished).
C17_RoundsNeverOverlap ==
    program = "threads" =>
        \A t \in Threads, u \in Threads : (InRound(t) /\ InRound(u)) => t = u

\* C18: no stake update is lost: when no fl_round is in progress, every node's
\* stake is its initial stake plus all the rewards update_stake was called
\* with for it (rewards are positive, the floor at zero never acts), and its
\* stake_history has one entry per call after the first.
C18_NoLostStakeUpdate ==
    (program = "threads" /\ \A t \in Threads : ~InRound(t)) =>
        \A n \in 1..Len(nodes) :
            /\ nodes[n].stake = initial_stake[n] + threads["background_fl"].paid[n]
                                                 + threads["request"].paid[n]
            /\ Len(nodes[n].stake_history) = 1 + update_stake_calls[n]

\* C19: a consensus vector is never seen partly applied: while one round has
\* written its vector to some nodes and not yet to the others, no other round
\* is in progress to read or write the models.
C19_NoPartialApplication ==
    program = "threads" =>
        \A t \in Threads : PartlyApplied(t) =>
            \A u \in Threads \ {t} : ~InRound(u)

\* C20: every run_round call increases round_number by exactly 1, starting at
\* 1, and appends exactly one Metrics record carrying that number, whether the
\* round succeeds or aborts: after n calls round_number = n =
\* len(metrics_history) and the recorded numbers are 1..n in order.
C20_RoundsCounted ==
    program = "poc" =>
        /\ round_number = Len(metrics_history)
        /\ \A k \in 1..Len(metrics_history) : metrics_history[k].round_number = k

C20_RunRoundStep ==
    (program = "poc" /\ rnd'.op = "run_round" /\ rnd' # rnd) =>
        /\ round_number' = round_number + 1
        /\ Len(metrics_history') = Len(metrics_history) + 1
        /\ SubSeq(metrics_history', 1, Len(metrics_history)) = metrics_history
        /\ metrics_history'[Len(metrics_history')].round_number = round_number'

C21_UpdatesOfThisRound ==
    rnd.op = "run_round" =>
        /\ rnd.round = round_number
        /\ \A i \in 1..Len(rnd.updates) : rnd.updates[i].round_number = rnd.round

C21_NoUpdateOutlivesRound ==
    (rnd.op = "run_round" /\ rnd'.op = "run_round" /\ rnd'.round # rnd.round) =>
        \A i \in 1..Len(rnd.updates), j \in 1..Len(rnd'.updates) :
            rnd.updates[i] # rnd'.updates[j]

KrumRanksBefore(a, b) ==
    \/ KrumScore(a) < KrumScore(b)
    \/ (KrumScore(a) = KrumScore(b) /\ a < b)

C22_RankedByScoreThenIndex ==
    krum.op = "aggregate_fit" =>
        /\ \A i \in KrumSelected, j \in (1..KrumN) \ KrumSelected : KrumRanksBefore(i, j)
        /\ \A k \in 1..Len(krum.selected), l \in 1..Len(krum.selected) :
              k < l => KrumRanksBefore(krum.selected[k] + 1, krum.selected[l] + 1)

\* a tie at the cut (the smaller index selected, the larger rejected), a
\* rejected candidate with a larger score, and a tie inside the selection
C22_Witness ==
    /\ krum.op = "aggregate_fit"
    /\ krum.outcome = "parameters"
    /\ KrumK > 0
    /\ \E i \in KrumSelected, j \in (1..KrumN) \ KrumSelected :
          KrumScore(i) = KrumScore(j) /\ i < j
    /\ \E i \in KrumSelected, j \in (1..KrumN) \ KrumSelected :
          KrumScore(i) < KrumScore(j)
    /\ \E k \in 1..(Len(krum.selected) - 1) :
          KrumScore(krum.selected[k] + 1) = KrumScore(krum.selected[k + 1] + 1)

\* the distances from candidate i to the other N - 1 candidates, ascending
KrumDistances == distance_matrix([j \in 1..KrumN |-> flatten(krum.results[j])])
KrumOthers(i) ==
    SortSeq([j \in 1..(KrumN - 1) |-> KrumDistances[i][IF j < i THEN j ELSE j + 1]],
            LAMBDA a, b : a < b)

\* C23: when k = N - f - 2 > 0, the Krum score of every candidate i is the sum
\* of the k smallest distances from i to the other N - 1 candidates: the
\* self-distance is left out once, and a zero distance to an identical
\* candidate is counted.
C23_ScoreIsSumOfKNearest ==
    (krum.op = "aggregate_fit" /\ KrumK > 0) =>
        \A i \in 1..KrumN : KrumScore(i) = SumSeq(SubSeq(KrumOthers(i), 1, KrumK))

\* a candidate with an identical twin among the others and a positive score
C23_Witness ==
    /\ krum.op = "aggregate_fit"
    /\ KrumK >= 2
    /\ \E i \in 1..KrumN :
          /\ \E j \in (1..KrumN) \ {i} : krum.results[j] = krum.results[i]
          /\ KrumScore(i) > 0

AggWeight(i) == agg.updates[i].stake * agg.updates[i].contribution_score

\* C24: stake_weighted_trimmed_mean returns None when every update's weight
\* stake x contribution_score is zero, and returns a vector when there are at
\* least 2 updates, no weight is negative and at least one is positive.
C24_NoneIffNoWeight ==
    agg.op \in {"aggregated", "permuted"} =>
        /\ (\A i \in 1..AggN : AggWeight(i) = 0) => agg.result = None
        /\ (/\ AggN >= 2
            /\ \A i \in 1..AggN : AggWeight(i) >= 0
            /\ \E i \in 1..AggN : AggWeight(i) > 0)
           => (agg.result # None /\ Len(agg.result) = Len(agg.updates[1].weights))

\* two or more updates, all with stake 0, gave None
C24_Witness ==
    /\ agg.op = "aggregated"
    /\ AggN >= 2
    /\ \A i \in 1..AggN : AggWeight(i) = 0
    /\ agg.result = None

\* the model of node n after its own training in the round of this step
TrainedModel(n) ==
    IF rnd'.trained[n] # None THEN VecAdd(nodes[n].model, rnd'.trained[n])
    ELSE nodes[n].model

\* C25: when a round of run_round has at least 2 accepted updates and the
\* aggregator returns None (their weights are all zero), the round fails: no
\* apply_update is made (a model moves by its node's own training only) and
\* the record has aggregation_success = False.  aggregation_success is True
\* exactly in the rounds that have a consensus vector, and then that vector
\* has been added to the model of every online node.
C25_RunRoundStep ==
    (program = "poc" /\ RoundStep) =>
        LET success == metrics_history'[Len(metrics_history')].aggregation_success
        IN  /\ (/\ Len(rnd'.updates) >= MinUpdates
                /\ \A i \in 1..Len(rnd'.updates) :
                      rnd'.updates[i].stake * rnd'.updates[i].contribution_score = 0)
               => (rnd'.aggregated = None /\ ~success)
            /\ success <=> rnd'.aggregated # None
            /\ \A n \in NodeIx :
                  nodes'[n].model =
                     IF success /\ nodes[n].is_online
                     THEN VecAdd(TrainedModel(n), rnd'.aggregated)
                     ELSE TrainedModel(n)

C25_AggregationFailureAborts == [][C25_RunRoundStep]_vars

\* a round with 2 or more accepted updates in which the aggregator gave None
C25_Witness ==
    /\ rnd.op = "run_round"
    /\ Len(rnd.updates) >= MinUpdates
    /\ rnd.aggregated = None
    /\ ~metrics_history[Len(metrics_history)].aggregation_success

\* C26: in every aggregate_fit with non-empty results the selected indices are
\* distinct indices of the received results, so the Byzantine suspect count
\* |received| - |selected| lies in 0..|received|; it is what the call adds to
\* the cumulative counter, which never decreases.
C26_SuspectCountInRange ==
    (krum.op = "aggregate_fit" /\ KrumN > 0) =>
        /\ \A k \in 1..Len(krum.selected) : krum.selected[k] \in 0..(KrumN - 1)
        /\ Cardinality(KrumSelected) = Len(krum.selected)
        /\ KrumN - Len(krum.selected) \in 0..KrumN
        /\ krum.outcome # "ValueError"

C26_CounterStep ==
    /\ krum'.byzantine_counter >= krum.byzantine_counter
    /\ Len(krum'.results) > 0 =>
          krum'.byzantine_counter =
             krum.byzantine_counter + Len(krum'.results) - Len(krum'.selected)

C26_SuspectCount == []C26_SuspectCountInRange /\ [][C26_CounterStep]_vars

\* two rounds have each counted suspects
C26_Witness ==
    /\ krum.op = "aggregate_fit"
    /\ krum.server_round = 2
    /\ krum.outcome = "parameters"
    /\ KrumN - Len(krum.selected) > 0
    /\ krum.byzantine_counter = 2 * (KrumN - Len(krum.selected))

\* C27: the distance matrix of _multi_krum_select is symmetric, has a zero
\* diagonal and no negative entry, and has 0 between two equal vectors.
C27_DistanceMatrixSymmetric ==
    krum.op = "aggregate_fit" =>
        /\ Len(KrumDistances) = KrumN
        /\ \A i \in 1..KrumN :
              /\ Len(KrumDistances[i]) = KrumN
              /\ KrumDistances[i][i] = 0
              /\ \A j \in 1..KrumN :
                    /\ KrumDistances[i][j] = KrumDistances[j][i]
                    /\ KrumDistances[i][j] >= 0
                    /\ krum.results[i] = krum.results[j] => KrumDistances[i][j] = 0

\* three or more vectors, two of them equal and two of them different
C27_Witness ==
    /\ krum.op = "aggregate_fit"
    /\ KrumN >= 3
    /\ \E i \in 1..KrumN, j \in 1..KrumN :
          i # j /\ krum.results[i] = krum.results[j]
    /\ \E i \in 1..KrumN, j \in 1..KrumN :
          i > j /\ KrumDistances[i][j] > 0

C29_NonEmptySelection ==
    (krum.op = "aggregate_fit" /\ KrumN >= 1) =>
        /\ krum.selected # <<>>
        /\ Cardinality(KrumSelected) = Len(krum.selected)
        /\ KrumSelected \subseteq 1..KrumN
        /\ krum.outcome = "parameters"

\* C30: every fl_round invocation gets its own round number: when no
\* invocation is in progress fl_round_number is the number of invocations
\* made, and two invocations never report the same round.
C30_OwnRoundNumber ==
    (program = "threads" /\ \A t \in Threads : ~InRound(t)) =>
        /\ round_number = threads["background_fl"].calls + threads["request"].calls
        /\ (threads["background_fl"].calls = 1 /\ threads["request"].calls = 1) =>
              threads["background_fl"].response.round # threads["request"].response.round

====
